---- MODULE Spec2Model ----
(***************************************************************************)
(* A state-machine model of the QR API service: the shared browser session *)
(* (getBrowser), the per-request pipeline of generateQRCode in its two     *)
(* builds (src/api/server.js: identifier-addressed controls and            *)
(* download-and-read extraction; src/unnamed/part_000: label-addressed     *)
(* controls and direct capture), the two /generate handlers and the SIGINT *)
(* handler.  One action is one run of JavaScript between two awaits whose  *)
(* effects other requests can observe; awaits that touch only the          *)
(* request's own page are taken together, with the failing call chosen     *)
(* nondeterministically.                                                   *)
(***************************************************************************)
EXTENDS Integers, Sequences, FiniteSets, TLC

VARIABLES
  impl,      \* which build is deployed: "download" (server.js) or "capture" (part_000)
  browser,   \* the module-level `browser` handle: 0 is null, else a session id
  sessions,  \* sessions launched so far, in launch order: "live" | "crashed" | "closed"
  launches,  \* history: [started, failed] counts of puppeteer.launch calls
  req,       \* per request: where generateQRCode stands and what it holds
  pages,     \* per request: the page it opened
  dir,       \* files in /tmp/qr-downloads
  dl,        \* per request: the download its export click started
  resp,      \* per request: the HTTP response sent
  answered,  \* history: request ids in the order they were answered
  proc       \* the Node process: [state, signals, closing]; closing lists the
             \* session of each browser.close() a SIGINT handler has called

vars == <<impl, browser, sessions, launches, req, pages, dir, dl, resp, answered, proc>>

----------------------------------------------------------------------------
(* Bounds *)

\* Number of HTTP requests the model follows (each slot carries one request).
NumRequests == 2
\* Termination signals delivered to the process.
MaxSignals == 2

\* Closed accordion panels the generation-1 page may show.
MaxAccordions == 2

Requests == 1..NumRequests

----------------------------------------------------------------------------
(* JavaScript values *)

\* An absent property / `undefined`.
UNDEF == "undefined"

\* !v for the string-or-undefined values the options carry.
Falsy(v) == v \in {UNDEF, ""}

\* Destructuring default: `x = d` applies only when x is undefined.
Default(v, d) == IF v = UNDEF THEN d ELSE v

\* `v || d`.
OrElse(v, d) == IF Falsy(v) THEN d ELSE v


Truthy(v) == ~Falsy(v)

----------------------------------------------------------------------------
(* Program constants *)

\* server.js: the variant sets the identifier-addressed binder recognizes.
DOT_TYPES_B == {"dots", "rounded", "classy", "classy-rounded", "square", "extra-rounded"}
CORNER_SQUARE_TYPES_B == {"dot", "square", "extra-rounded"}
CORNER_DOT_TYPES_B == {"dot", "square"}
ERROR_CORRECTION_LEVELS_B == {"L", "M", "Q", "H"}

\* server.js: the values its README section lists for the two corner fields.
README_CORNER_SQUARE_TYPES ==
  {"square", "rounded", "dots", "classy", "classy-rounded", "extra-rounded"}
README_CORNER_DOT_TYPES == {"square", "rounded", "dot"}

\* part_000: the variant sets the label-addressed binder recognizes.
DOT_TYPES_A == {"square", "rounded", "dots", "classy", "classy-rounded", "extra-rounded"}
CORNER_SQUARE_TYPES_A == {"square", "rounded", "dots", "classy", "classy-rounded", "extra-rounded"}
CORNER_DOT_TYPES_A == {"square", "rounded", "dot"}
\* part_000: ERROR_CORRECTION_LEVELS is an object from level to label text.
ERROR_CORRECTION_LABELS_A ==
  [l \in {"L", "M", "Q", "H"} |->
     CASE l = "L" -> "Low (7%)"
       [] l = "M" -> "Medium (15%)"
       [] l = "Q" -> "High (25%)"
       [] l = "H" -> "Highest (30%)"]

EnumFields == {"dotsType", "cornersSquareType", "cornersDotType", "errorCorrectionLevel"}

\* The set a field's value is tested against (`X.includes(v)`, or `X[v]` for
\* the error-correction object of part_000).
Recognized(im, field) ==
  CASE field = "dotsType" ->
         IF im = "download" THEN DOT_TYPES_B ELSE DOT_TYPES_A
    [] field = "cornersSquareType" ->
         IF im = "download" THEN CORNER_SQUARE_TYPES_B ELSE CORNER_SQUARE_TYPES_A
    [] field = "cornersDotType" ->
         IF im = "download" THEN CORNER_DOT_TYPES_B ELSE CORNER_DOT_TYPES_A
    [] field = "errorCorrectionLevel" ->
         IF im = "download" THEN ERROR_CORRECTION_LEVELS_B
                            ELSE DOMAIN ERROR_CORRECTION_LABELS_A

\* Mutant: the dot type is clicked whenever it is given, recognized or not.
EnumAcceptedUncheckedDots(im, field, v) ==
  IF field = "dotsType" THEN Truthy(v)
  ELSE Truthy(v) /\ v \in Recognized(im, field)

\* The guard of each enum step: `v && X.includes(v)`.
EnumAccepted(im, field, v) == Truthy(v) /\ v \in Recognized(im, field)

----------------------------------------------------------------------------
(* Requests and options *)

\* A request body or query with no property set.
NoFields ==
  [data |-> UNDEF, logoUrl |-> UNDEF,
   backgroundColor |-> UNDEF, dotsColor |-> UNDEF,
   cornersSquareColor |-> UNDEF, cornersDotColor |-> UNDEF,
   width |-> UNDEF, height |-> UNDEF, borderRadius |-> UNDEF,
   margin |-> UNDEF, imageMargin |-> UNDEF,
   dotsType |-> UNDEF, cornersSquareType |-> UNDEF, cornersDotType |-> UNDEF,
   errorCorrectionLevel |-> UNDEF, format |-> UNDEF]

\* The characters of the query texts the model sends for numeric fields.
Chars(t) ==
  CASE t = "400" -> <<"4", "0", "0">>
    [] t = "12px" -> <<"1", "2", "p", "x">>
    [] t = "abc" -> <<"a", "b", "c">>
    [] OTHER -> <<>>

Digits == {"0", "1", "2", "3", "4", "5", "6", "7", "8", "9"}

RECURSIVE DigitPrefix(_)
DigitPrefix(cs) ==
  IF cs = <<>> \/ Head(cs) \notin Digits THEN ""
  ELSE Head(cs) \o DigitPrefix(Tail(cs))

\* parseInt(text) and then String(): the leading decimal digits, NaN if none.
ParseInt(t) ==
  LET d == DigitPrefix(Chars(t)) IN IF d = "" THEN "NaN" ELSE d

\* `req.query.x ? parseInt(req.query.x) : undefined`
QueryInt(t) == IF Truthy(t) THEN ParseInt(t) ELSE UNDEF

\* The options object app.get('/generate') builds from the query.
QueryOptions(q) ==
  [q EXCEPT !.width = QueryInt(q.width), !.height = QueryInt(q.height),
            !.borderRadius = QueryInt(q.borderRadius),
            !.margin = QueryInt(q.margin),
            !.imageMargin = QueryInt(q.imageMargin)]

\* What the handler passes to generateQRCode: req.body, or the options built
\* from req.query.
HandlerOptions(input) ==
  IF input.method = "GET" THEN QueryOptions(input.f) ELSE input.f

\* The destructuring at the head of generateQRCode, defaults applied.
Destructure(o) ==
  [o EXCEPT !.backgroundColor = Default(o.backgroundColor, "#ffffff"),
            !.dotsColor = Default(o.dotsColor, "#000000"),
            !.width = Default(o.width, "300"),
            !.height = Default(o.height, "300"),
            !.borderRadius = Default(o.borderRadius, "0"),
            !.margin = Default(o.margin, "10"),
            !.imageMargin = Default(o.imageMargin, "0"),
            !.dotsType = Default(o.dotsType, "square"),
            !.cornersSquareType = Default(o.cornersSquareType, "square"),
            !.cornersDotType = Default(o.cornersDotType, "square"),
            !.errorCorrectionLevel = Default(o.errorCorrectionLevel, "M"),
            !.format = Default(o.format, "png")]

\* Mutant: only an absent data is rejected, an empty one passes.
DataMissingUndefinedOnly(o) == o.data = UNDEF

\* `if (!data) throw new Error('Data to encode is required')`
DataMissing(o) == Falsy(o.data)

ErrDataRequired == "Data to encode is required"
ErrDestructure == "Cannot destructure property 'data' of 'options' as it is undefined."
ErrLaunch == "Failed to launch the browser process"
ErrProtocol == "Protocol error: Target closed"
ErrNavigation == "Navigation timeout of 30000 ms exceeded"
ErrSelector == "Waiting for selector failed: 10000ms exceeded"
ErrNoFile == "Download failed - no file found"
ErrReadFile == "ENOENT: no such file or directory, open"
ErrUnlink == "ENOENT: no such file or directory, unlink"
ErrNoElement == "QR code element not found"
ErrNoSvg == "SVG element not found"
NoError == ""


----------------------------------------------------------------------------
(* Form Binder: the calls made on the request's page, in order.  An event  *)
(* is <<operation, target, value>>.                                        *)

\* server.js setInputById(id, value): value set and input/change dispatched.
SetInputById(id, value) == << <<"setInput", id, value>> >>

\* server.js setColorById(id, color)
SetColorById(id, color) == << <<"setColor", id, color>> >>

\* part_000 setTextInputByLabel(labelText, value): triple-click, then type.
SetTextInputByLabel(labelText, value) == << <<"typeInput", labelText, value>> >>

\* part_000 setColorInput(labelText, color)
SetColorInput(labelText, color) == << <<"setColor", labelText, color>> >>

\* One enum step of either build: a click on the control of `field` for the
\* value when the guard accepts it, nothing otherwise.  server.js clicks the
\* radio `<field>OptionsType-<v>`, part_000 the label whose text is the value
\* (for the error-correction level, the label text the object maps it to).
EnumStep(im, field, v) ==
  IF EnumAccepted(im, field, v)
  THEN << <<"click", field,
            IF im = "capture" /\ field = "errorCorrectionLevel"
            THEN ERROR_CORRECTION_LABELS_A[v] ELSE v>> >>
  ELSE <<>>

\* part_000: one click and one 200 ms pause per closed accordion button.
RECURSIVE ExpandAccordions(_)
ExpandAccordions(k) ==
  IF k = 0 THEN <<>>
  ELSE << <<"expand", "button[data-state]", "closed">>,
          <<"pause", "200", "">> >> \o ExpandAccordions(k - 1)

\* Mutant: the settle pause is taken before the enum controls are clicked.
FormEventsBSettleEarly(o) ==
  SetInputById("data", o.data)
  \o (IF Truthy(o.logoUrl) THEN SetInputById("image-url", o.logoUrl) ELSE <<>>)
  \o SetColorById("background-color", o.backgroundColor)
  \o SetColorById("dots-color", o.dotsColor)
  \o (IF Truthy(o.cornersSquareColor)
      THEN SetColorById("corners-square-color", o.cornersSquareColor) ELSE <<>>)
  \o (IF Truthy(o.cornersDotColor)
      THEN SetColorById("corners-dot-color", o.cornersDotColor) ELSE <<>>)
  \o SetInputById("width", o.width)
  \o SetInputById("height", o.height)
  \o SetInputById("border-radius", o.borderRadius)
  \o SetInputById("margin", o.margin)
  \o SetInputById("image-margin", o.imageMargin)
  \o << <<"pause", "1000", "">> >>
  \o EnumStep("download", "dotsType", o.dotsType)
  \o EnumStep("download", "cornersSquareType", o.cornersSquareType)
  \o EnumStep("download", "cornersDotType", o.cornersDotType)
  \o EnumStep("download", "errorCorrectionLevel", o.errorCorrectionLevel)

\* server.js lines 111-157, for the destructured options o.
FormEventsB(o) ==
  SetInputById("data", o.data)
  \o (IF Truthy(o.logoUrl) THEN SetInputById("image-url", o.logoUrl) ELSE <<>>)
  \o SetColorById("background-color", o.backgroundColor)
  \o SetColorById("dots-color", o.dotsColor)
  \o (IF Truthy(o.cornersSquareColor)
      THEN SetColorById("corners-square-color", o.cornersSquareColor) ELSE <<>>)
  \o (IF Truthy(o.cornersDotColor)
      THEN SetColorById("corners-dot-color", o.cornersDotColor) ELSE <<>>)
  \o SetInputById("width", o.width)
  \o SetInputById("height", o.height)
  \o SetInputById("border-radius", o.borderRadius)
  \o SetInputById("margin", o.margin)
  \o SetInputById("image-margin", o.imageMargin)
  \o EnumStep("download", "dotsType", o.dotsType)
  \o EnumStep("download", "cornersSquareType", o.cornersSquareType)
  \o EnumStep("download", "cornersDotType", o.cornersDotType)
  \o EnumStep("download", "errorCorrectionLevel", o.errorCorrectionLevel)
  \o << <<"pause", "1000", "">> >>

\* Mutant: the panels are expanded only after the colors have been set.
FormEventsAExpandLate(o, k) ==
  << <<"typeInput", "input.text-input", o.data>> >>
  \o (IF Truthy(o.logoUrl)
      THEN SetTextInputByLabel("Logo image URL", o.logoUrl) ELSE <<>>)
  \o SetColorInput("Background color", o.backgroundColor)
  \o SetColorInput("Dots color", o.dotsColor)
  \o ExpandAccordions(k)
  \o (IF Truthy(o.cornersSquareColor)
      THEN SetColorInput("Corners Square color", o.cornersSquareColor) ELSE <<>>)
  \o (IF Truthy(o.cornersDotColor)
      THEN SetColorInput("Corners Dot color", o.cornersDotColor) ELSE <<>>)
  \o SetTextInputByLabel("Width", o.width)
  \o SetTextInputByLabel("Height", o.height)
  \o SetTextInputByLabel("Border radius", o.borderRadius)
  \o SetTextInputByLabel("Margin", o.margin)
  \o SetTextInputByLabel("Image margin", o.imageMargin)
  \o EnumStep("capture", "dotsType", o.dotsType)
  \o EnumStep("capture", "cornersSquareType", o.cornersSquareType)
  \o EnumStep("capture", "cornersDotType", o.cornersDotType)
  \o EnumStep("capture", "errorCorrectionLevel", o.errorCorrectionLevel)
  \o << <<"pause", "500", "">> >>

\* part_000 lines 81-188, for the destructured options o and k closed panels.
FormEventsA(o, k) ==
  << <<"typeInput", "input.text-input", o.data>> >>
  \o ExpandAccordions(k)
  \o (IF Truthy(o.logoUrl)
      THEN SetTextInputByLabel("Logo image URL", o.logoUrl) ELSE <<>>)
  \o SetColorInput("Background color", o.backgroundColor)
  \o SetColorInput("Dots color", o.dotsColor)
  \o (IF Truthy(o.cornersSquareColor)
      THEN SetColorInput("Corners Square color", o.cornersSquareColor) ELSE <<>>)
  \o (IF Truthy(o.cornersDotColor)
      THEN SetColorInput("Corners Dot color", o.cornersDotColor) ELSE <<>>)
  \o SetTextInputByLabel("Width", o.width)
  \o SetTextInputByLabel("Height", o.height)
  \o SetTextInputByLabel("Border radius", o.borderRadius)
  \o SetTextInputByLabel("Margin", o.margin)
  \o SetTextInputByLabel("Image margin", o.imageMargin)
  \o EnumStep("capture", "dotsType", o.dotsType)
  \o EnumStep("capture", "cornersSquareType", o.cornersSquareType)
  \o EnumStep("capture", "cornersDotType", o.cornersDotType)
  \o EnumStep("capture", "errorCorrectionLevel", o.errorCorrectionLevel)
  \o << <<"pause", "500", "">> >>

FormEvents(im, o, k) == IF im = "download" THEN FormEventsB(o) ELSE FormEventsA(o, k)

----------------------------------------------------------------------------
(* Output Extractor and Request Adapter helpers *)

NoBytes == [kind |-> "none", owner |-> 0]
NoFile == [owner |-> 0, ext |-> "none"]

\* server.js lines 170-174: the export button for a format.
ButtonFor(format) ==
  IF format = "svg" THEN "svg" ELSE IF format = "jpeg" THEN "jpg" ELSE "png"

\* The file the target application writes when that button is clicked.
ExtOfButton(button) == button

\* Mutant: the format itself is the extension searched.
SearchExtVerbatim(format) == format

\* server.js line 183: the extension searched in the download directory.
SearchExt(format) == IF format = "jpeg" THEN "jpg" ELSE format

\* What a file with that extension holds.
KindOfExt(ext) == IF ext = "jpg" THEN "jpeg" ELSE ext

\* Mutant: every screenshot is taken as png.
ScreenshotTypePng(format) == "png"

\* part_000 lines 208-210: the screenshot type for a non-svg format.
ScreenshotType(format) == IF format = "png" THEN "png" ELSE "jpeg"

\* Both handlers: `const format = <body or options>.format || 'png'`.
ResponseFormat(input) == OrElse(input.f.format, "png")

\* Both handlers: the Content-Type of a successful response.
ContentType(format) ==
  IF format = "svg" THEN "image/svg+xml" ELSE "image/" \o format

\* The response of a handler whose generateQRCode call resolved with bytes.
Success(input, bytes) ==
  [status |-> 200, ctype |-> ContentType(ResponseFormat(input)),
   disp |-> IF input.method = "POST" THEN ResponseFormat(input) ELSE UNDEF,
   body |-> bytes, error |-> NoError]

\* Mutant: the catch block answers with a fixed text, not the error's message.
FailureGeneric(message) ==
  [status |-> 500, ctype |-> "application/json", disp |-> UNDEF,
   body |-> NoBytes, error |-> "Internal Server Error"]

\* The catch block of both handlers: res.status(500).json({error: message}).
Failure(message) ==
  [status |-> 500, ctype |-> "application/json", disp |-> UNDEF,
   body |-> NoBytes, error |-> message]

NoResponse ==
  [status |-> 0, ctype |-> UNDEF, disp |-> UNDEF, body |-> NoBytes, error |-> NoError]


----------------------------------------------------------------------------
(* State *)

IdleRequest ==
  [pc |-> "idle",
   input |-> [method |-> "POST", hasBody |-> TRUE, f |-> NoFields],
   browserInstance |-> 0,   \* what `await getBrowser()` gave
   thrown |-> NoError,      \* the error thrown before or inside the try block
   result |-> NoBytes,      \* the bytes the try block returned
   file |-> NoFile,         \* downloadedFile
   log |-> <<>>]            \* the browser and page calls made so far

NoPage == [state |-> "none", session |-> 0, closeCalled |-> FALSE,
           drivenBy |-> {}]   \* history: the requests whose calls reached the page

NoDownload == [state |-> "none", ext |-> "none"]

Init ==
  /\ impl \in {"download", "capture"}
  /\ browser = 0
  /\ sessions = <<>>
  /\ launches = [started |-> 0, failed |-> 0]
  /\ req = [r \in Requests |-> IdleRequest]
  /\ pages = [r \in Requests |-> NoPage]
  /\ dir = {}
  /\ dl = [r \in Requests |-> NoDownload]
  /\ resp = [r \in Requests |-> NoResponse]
  /\ answered = <<>>
  /\ proc = [state |-> "running", signals |-> 0, closing |-> <<>>]

Running == proc.state # "exited"

\* The options generateQRCode works with for request r.
Opts(r) == Destructure(HandlerOptions(req[r].input))

\* Mutant: one page variable shared by the requests, as `browser` is: every
\* request drives the first page once it is there.
PageOfShared(r) == IF pages[1].state # "none" THEN 1 ELSE r

\* The page the local `const page` of request r refers to; the helpers of
\* generateQRCode close over it.
PageOf(r) == r

\* The page of request r can still be driven: it is open in a live session.
PageUsable(r) == pages[PageOf(r)].state = "open"

\* Request r makes calls on its `page`.
Drive(r) == pages' = [pages EXCEPT ![PageOf(r)].drivenBy = @ \cup {r}]

\* The handler of request r sends its response.
Respond(r, response) ==
  /\ resp' = [resp EXCEPT ![r] = response]
  /\ answered' = Append(answered, r)

\* A session ends (crash, or browser.close): its open pages go with it.
PagesAfterEnd(s) ==
  [r \in Requests |->
     IF pages[r].session = s /\ pages[r].state = "open"
     THEN [pages[r] EXCEPT !.state = "gone"] ELSE pages[r]]

----------------------------------------------------------------------------
(* getBrowser and the head of generateQRCode *)

\* getBrowser, line `if (!browser)`: a launch is needed.
MustLaunch == browser = 0

\* A request arrives and its handler runs up to the first await that leaves
\* the event-loop turn: the options are built and destructured, data is
\* validated, getBrowser is called and either starts puppeteer.launch or
\* returns the cached handle, on which newPage is then called.
Start(r, input) ==
  /\ Running
  /\ req[r].pc = "idle"
  /\ LET o == HandlerOptions(input) IN
     IF input.method = "POST" /\ ~input.hasBody
     THEN \* destructuring `undefined` throws a TypeError
          /\ req' = [req EXCEPT ![r] = [@ EXCEPT !.pc = "done", !.input = input,
                                                  !.thrown = ErrDestructure]]
          /\ Respond(r, Failure(ErrDestructure))
          /\ UNCHANGED launches
     ELSE IF DataMissing(o)
     THEN /\ req' = [req EXCEPT ![r] = [@ EXCEPT !.pc = "done", !.input = input,
                                                  !.thrown = ErrDataRequired]]
          /\ Respond(r, Failure(ErrDataRequired))
          /\ UNCHANGED launches
     ELSE IF MustLaunch
     THEN /\ req' = [req EXCEPT ![r] = [@ EXCEPT !.pc = "launching", !.input = input,
                       !.log = << <<"getBrowser", "", "">>, <<"launch", "", "">> >>]]
          /\ launches' = [launches EXCEPT !.started = @ + 1]
          /\ UNCHANGED <<resp, answered>>
     ELSE /\ req' = [req EXCEPT ![r] = [@ EXCEPT !.pc = "newPage", !.input = input,
                       !.browserInstance = browser,
                       !.log = << <<"getBrowser", "", "">>, <<"newPage", "", "">> >>]]
          /\ UNCHANGED <<launches, resp, answered>>
  /\ UNCHANGED <<impl, browser, sessions, pages, dir, dl, proc>>

\* puppeteer.launch resolves: the handle is cached and returned, and newPage
\* is called on it.
LaunchDone(r) ==
  /\ Running
  /\ req[r].pc = "launching"
  /\ sessions' = Append(sessions, "live")
  /\ browser' = Len(sessions) + 1
  /\ req' = [req EXCEPT ![r] = [@ EXCEPT !.pc = "newPage",
                !.browserInstance = Len(sessions) + 1,
                !.log = Append(@, <<"newPage", "", "">>)]]
  /\ UNCHANGED <<impl, launches, pages, dir, dl, resp, answered, proc>>

\* puppeteer.launch rejects: getBrowser rejects, generateQRCode rejects, the
\* handler's catch answers.  `browser` is not assigned.
LaunchFail(r) ==
  /\ Running
  /\ req[r].pc = "launching"
  /\ launches' = [launches EXCEPT !.failed = @ + 1]
  /\ req' = [req EXCEPT ![r] = [@ EXCEPT !.pc = "done", !.thrown = ErrLaunch]]
  /\ Respond(r, Failure(ErrLaunch))
  /\ UNCHANGED <<impl, browser, sessions, pages, dir, dl, proc>>

\* browserInstance.newPage() settles.  It is outside the try block: a
\* rejection goes straight to the handler.
NewPageDone(r) ==
  /\ Running
  /\ req[r].pc = "newPage"
  /\ IF sessions[req[r].browserInstance] = "live"
     THEN /\ pages' = [pages EXCEPT ![r] =
                [state |-> "open", session |-> req[r].browserInstance,
                 closeCalled |-> FALSE, drivenBy |-> {}]]
          /\ req' = [req EXCEPT ![r] = [@ EXCEPT !.pc = "open"]]
          /\ UNCHANGED <<resp, answered>>
     ELSE /\ req' = [req EXCEPT ![r] = [@ EXCEPT !.pc = "done", !.thrown = ErrProtocol]]
          /\ Respond(r, Failure(ErrProtocol))
          /\ UNCHANGED pages
  /\ UNCHANGED <<impl, browser, sessions, launches, dir, dl, proc>>


----------------------------------------------------------------------------
(* Inside the try block *)

\* The try block of request r throws: control passes to the finally block.
Throw(r, message, events) ==
  req' = [req EXCEPT ![r] = [@ EXCEPT !.pc = "finally", !.thrown = message,
                                      !.log = @ \o events]]

\* Page Controller: setViewport, goto (30 s), waitForSelector (10 s).
OpenPage(r) ==
  /\ Running
  /\ req[r].pc = "open"
  /\ IF PageUsable(r)
     THEN \/ req' = [req EXCEPT ![r] = [@ EXCEPT !.pc = "bind",
                       !.log = @ \o << <<"setViewport", "1280", "900">>,
                                       <<"goto", "MINI_QR_URL", "30000">>,
                                       <<"waitForSelector", "ready", "10000">> >>]]
          \/ Throw(r, ErrNavigation, << <<"setViewport", "1280", "900">>,
                                        <<"goto", "MINI_QR_URL", "30000">> >>)
          \/ Throw(r, ErrSelector, << <<"setViewport", "1280", "900">>,
                                      <<"goto", "MINI_QR_URL", "30000">>,
                                      <<"waitForSelector", "ready", "10000">> >>)
     ELSE Throw(r, ErrProtocol, << <<"setViewport", "1280", "900">> >>)
  /\ Drive(r)
  /\ UNCHANGED <<impl, browser, sessions, launches, dir, dl, resp, answered, proc>>

\* Form Binder and Render Waiter: every field is applied to the request's
\* page, then the settle pause.  Absent controls are silent no-ops, so with
\* the page usable the binder does not throw.
BindForm(r) ==
  /\ Running
  /\ req[r].pc = "bind"
  /\ IF PageUsable(r)
     THEN \E k \in 0..MaxAccordions :
            /\ (impl = "download") => (k = 0)
            /\ req' = [req EXCEPT ![r] = [@ EXCEPT !.pc = "extract",
                         !.log = @ \o FormEvents(impl, Opts(r), k)]]
     ELSE Throw(r, ErrProtocol, <<>>)
  /\ Drive(r)
  /\ UNCHANGED <<impl, browser, sessions, launches, dir, dl, resp, answered, proc>>

\* server.js lines 159-179: mkdir, CDP download behaviour, click on the
\* export button of the format; the 2000 ms wait starts.
ExportClick(r) ==
  /\ Running
  /\ impl = "download"
  /\ req[r].pc = "extract"
  /\ IF PageUsable(r)
     THEN /\ req' = [req EXCEPT ![r] = [@ EXCEPT !.pc = "scan",
                       !.log = @ \o << <<"setDownloadBehavior", "/tmp/qr-downloads", "">>,
                                       <<"clickExport", ButtonFor(Opts(r).format), "">> >>]]
          /\ dl' = [dl EXCEPT ![r] =
                      [state |-> "pending", ext |-> ExtOfButton(ButtonFor(Opts(r).format))]]
     ELSE /\ Throw(r, ErrProtocol, <<>>)
          /\ UNCHANGED dl
  /\ Drive(r)
  /\ UNCHANGED <<impl, browser, sessions, launches, dir, resp, answered, proc>>

\* The browser finishes writing the exported file of request r into the
\* download directory; this may be before or after the 2000 ms wait ends.
DownloadLands(r) ==
  /\ Running
  /\ dl[r].state = "pending"
  /\ sessions[pages[PageOf(r)].session] = "live"
  /\ dir' = dir \cup {[owner |-> r, ext |-> dl[r].ext]}
  /\ dl' = [dl EXCEPT ![r] = [@ EXCEPT !.state = "landed"]]
  /\ UNCHANGED <<impl, browser, sessions, launches, req, pages, resp, answered, proc>>

\* server.js lines 182-191: readdir, the first file with the extension (the
\* order of readdir is the file system's: any matching file), then readFile
\* is issued on it.
ScanDir(r) ==
  /\ Running
  /\ req[r].pc = "scan"
  /\ LET found == {f \in dir : f.ext = SearchExt(Opts(r).format)} IN
     IF found = {}
     THEN Throw(r, ErrNoFile, << <<"readdir", SearchExt(Opts(r).format), "none">> >>)
     ELSE \E f \in found :
            req' = [req EXCEPT ![r] = [@ EXCEPT !.pc = "read", !.file = f,
                      !.log = @ \o << <<"readdir", SearchExt(Opts(r).format), "found">>,
                                      <<"readFile", f.ext, "">> >>]]
  /\ UNCHANGED <<impl, browser, sessions, launches, pages, dir, dl, resp, answered, proc>>

\* fs.readFile settles; on success fs.unlink is issued.
ReadFile(r) ==
  /\ Running
  /\ req[r].pc = "read"
  /\ \/ /\ req[r].file \in dir
        /\ req' = [req EXCEPT ![r] = [@ EXCEPT !.pc = "unlink",
                     !.result = [kind |-> KindOfExt(req[r].file.ext),
                                 owner |-> req[r].file.owner],
                     !.log = Append(@, <<"unlink", req[r].file.ext, "">>)]]
     \/ Throw(r, ErrReadFile, <<>>)
  /\ UNCHANGED <<impl, browser, sessions, launches, pages, dir, dl, resp, answered, proc>>

\* fs.unlink settles; on success the buffer is returned.
Unlink(r) ==
  /\ Running
  /\ req[r].pc = "unlink"
  /\ IF req[r].file \in dir
     THEN /\ dir' = dir \ {req[r].file}
          /\ req' = [req EXCEPT ![r] = [@ EXCEPT !.pc = "finally"]]
     ELSE /\ Throw(r, ErrUnlink, <<>>)
          /\ UNCHANGED dir
  /\ UNCHANGED <<impl, browser, sessions, launches, pages, dl, resp, answered, proc>>

\* part_000 lines 190-212: the export container, then the svg markup or a
\* screenshot.  Whether the container and the svg element are in the page is
\* the target application's doing.
Capture(r) ==
  /\ Running
  /\ impl = "capture"
  /\ req[r].pc = "extract"
  /\ IF PageUsable(r)
     THEN \E container \in BOOLEAN, svg \in BOOLEAN :
            IF ~container
            THEN Throw(r, ErrNoElement, << <<"query", "#element-to-export", "null">> >>)
            ELSE IF Opts(r).format = "svg"
            THEN IF ~svg
                 THEN Throw(r, ErrNoSvg, << <<"query", "#element-to-export", "found">>,
                                            <<"serialize", "svg", "null">> >>)
                 ELSE req' = [req EXCEPT ![r] = [@ EXCEPT !.pc = "finally",
                                !.result = [kind |-> "svg", owner |-> r],
                                !.log = @ \o << <<"query", "#element-to-export", "found">>,
                                                <<"serialize", "svg", "found">> >>]]
            ELSE req' = [req EXCEPT ![r] = [@ EXCEPT !.pc = "finally",
                           !.result = [kind |-> ScreenshotType(Opts(r).format), owner |-> r],
                           !.log = @ \o << <<"query", "#element-to-export", "found">>,
                                           <<"screenshot", ScreenshotType(Opts(r).format), "">> >>]]
     ELSE Throw(r, ErrProtocol, <<>>)
  /\ Drive(r)
  /\ UNCHANGED <<impl, browser, sessions, launches, dir, dl, resp, answered, proc>>

----------------------------------------------------------------------------
(* The finally block and the handler's response *)

\* Mutant: the page is closed on the success path only.
ClosesOnSuccessOnly(r) == req[r].thrown = NoError

\* `finally { await page.close(); }` runs on every exit of the try block.
FinallyCloses(r) == TRUE

\* What generateQRCode settles with once the finally block is through: the
\* error of page.close if it threw, else the try block's own outcome.
Settled(r, closeError) ==
  IF closeError # NoError THEN Failure(closeError)
  ELSE IF req[r].thrown # NoError THEN Failure(req[r].thrown)
  ELSE Success(req[r].input, req[r].result)

\* page.close settles, generateQRCode settles, the handler answers.
\* page.close rejects when the session behind the page is gone.
PageClose(r) ==
  /\ Running
  /\ req[r].pc = "finally"
  /\ IF FinallyCloses(r)
     THEN /\ pages' = [pages EXCEPT ![PageOf(r)] =
                [@ EXCEPT !.closeCalled = TRUE,
                          !.drivenBy = @ \cup {r},
                          !.state = IF PageUsable(r) THEN "closed" ELSE @]]
          /\ req' = [req EXCEPT ![r] = [@ EXCEPT !.pc = "done",
                       !.log = Append(@, <<"close", "", "">>)]]
          /\ Respond(r, Settled(r, IF PageUsable(r) THEN NoError ELSE ErrProtocol))
     ELSE /\ req' = [req EXCEPT ![r] = [@ EXCEPT !.pc = "done"]]
          /\ Respond(r, Settled(r, NoError))
          /\ UNCHANGED pages
  /\ UNCHANGED <<impl, browser, sessions, launches, dir, dl, proc>>

----------------------------------------------------------------------------
(* The environment: the browser process and the termination signal *)

\* A launched browser process dies or disconnects.
Crash(s) ==
  /\ Running
  /\ s \in 1..Len(sessions)
  /\ sessions[s] = "live"
  /\ sessions' = [sessions EXCEPT ![s] = "crashed"]
  /\ pages' = PagesAfterEnd(s)
  /\ UNCHANGED <<impl, browser, launches, req, dir, dl, resp, answered, proc>>

\* SIGINT arrives: `if (browser) await browser.close()`; with no cached
\* handle process.exit() follows at once. The handler is registered with
\* process.on and keeps no flag, so a signal that arrives while an earlier
\* handler still awaits its close runs the handler again.
Sigint ==
  /\ proc.state \in {"running", "closing"}
  /\ proc.signals < MaxSignals
  /\ proc' = IF browser # 0
             THEN [state |-> "closing", signals |-> proc.signals + 1,
                   closing |-> Append(proc.closing, browser)]
             ELSE [proc EXCEPT !.state = "exited", !.signals = @ + 1]
  /\ UNCHANGED <<impl, browser, sessions, launches, req, pages, dir, dl, resp, answered>>

\* The browser.close() of one pending handler settles and that handler runs
\* process.exit().
SigintExit ==
  /\ proc.state = "closing"
  /\ \E i \in 1..Len(proc.closing) :
       /\ sessions' = [sessions EXCEPT ![proc.closing[i]] = IF @ = "live" THEN "closed" ELSE @]
       /\ pages' = PagesAfterEnd(proc.closing[i])
  /\ proc' = [proc EXCEPT !.state = "exited"]
  /\ UNCHANGED <<impl, browser, launches, req, dir, dl, resp, answered>>

----------------------------------------------------------------------------
(* Specifications *)

\* Requests of the concurrent specification: a JSON body with data and the
\* format absent (png) or svg, or with data absent or empty.
ConcInputs ==
  {[method |-> "POST", hasBody |-> TRUE,
    f |-> [NoFields EXCEPT !.data = "d", !.format = fm]] : fm \in {UNDEF, "svg"}}
  \cup {[method |-> "POST", hasBody |-> TRUE,
         f |-> [NoFields EXCEPT !.data = d]] : d \in {UNDEF, ""}}

\* Requests of the single-request specification: both entry points, a body
\* that is absent, empty or filled, and every enum field absent, recognized
\* by both builds, recognized by one build only, or recognized by neither.
FormInputs ==
  {[method |-> "POST", hasBody |-> TRUE,
    f |-> [NoFields EXCEPT !.data = d, !.format = fm, !.dotsType = dt,
                           !.cornersSquareType = cs, !.cornersDotType = cd,
                           !.errorCorrectionLevel = ec]] :
     d \in {UNDEF, "", "d"},
     fm \in {UNDEF, "", "jpeg", "svg", "gif"},
     dt \in {UNDEF, "rounded", "hexagon"},
     cs \in {UNDEF, "rounded", "hexagon"},
     cd \in {UNDEF, "dot", "hexagon"},
     ec \in {UNDEF, "Z"}}
  \cup {[method |-> "GET", hasBody |-> TRUE,
         f |-> [NoFields EXCEPT !.data = d, !.format = fm, !.dotsType = dt]] :
         d \in {UNDEF, "", "d"}, fm \in {UNDEF, "jpeg", "svg"},
         dt \in {UNDEF, "hexagon"}}
  \cup {[method |-> "POST", hasBody |-> FALSE, f |-> NoFields]}

\* Request slots are taken in order (the slots are interchangeable).
SlotFree(r) == \A q \in Requests : q < r => req[q].pc # "idle"

Next ==
  \/ \E r \in Requests :
        req[r].pc = "idle" /\ SlotFree(r) /\ \E i \in ConcInputs : Start(r, i)
  \/ \E r \in Requests : LaunchDone(r)
  \/ \E r \in Requests : LaunchFail(r)
  \/ \E r \in Requests : NewPageDone(r)
  \/ \E r \in Requests : OpenPage(r)
  \/ \E r \in Requests : BindForm(r)
  \/ \E r \in Requests : ExportClick(r)
  \/ \E r \in Requests : DownloadLands(r)
  \/ \E r \in Requests : ScanDir(r)
  \/ \E r \in Requests : ReadFile(r)
  \/ \E r \in Requests : Unlink(r)
  \/ \E r \in Requests : Capture(r)
  \/ \E r \in Requests : PageClose(r)
  \/ \E s \in Requests : Crash(s)
  \/ Sigint
  \/ SigintExit

Spec == Init /\ [][Next]_vars

\* One request at a time is followed from arrival to response, over the full
\* option space.
NextForm ==
  \/ req[1].pc = "idle" /\ \E i \in FormInputs : Start(1, i)
  \/ LaunchDone(1)
  \/ LaunchFail(1)
  \/ NewPageDone(1)
  \/ OpenPage(1)
  \/ BindForm(1)
  \/ ExportClick(1)
  \/ DownloadLands(1)
  \/ ScanDir(1)
  \/ ReadFile(1)
  \/ Unlink(1)
  \/ Capture(1)
  \/ PageClose(1)
  \/ Crash(1)
  \/ Sigint
  \/ SigintExit

SpecForm == Init /\ [][NextForm]_vars

\* Requests of the query specification: GET /generate with numeric fields
\* that are absent, a decimal number, a number with a unit, or no number.
QueryInputs ==
  {[method |-> "GET", hasBody |-> TRUE,
    f |-> [NoFields EXCEPT !.data = "d", !.format = fm, !.width = w,
                           !.margin = mg, !.imageMargin = im]] :
     fm \in {UNDEF, "svg"},
     w \in {UNDEF, "400", "12px", "abc"},
     mg \in {UNDEF, "400", "abc"},
     im \in {UNDEF, "12px"}}

\* One GET request is followed from arrival to response.
NextQuery ==
  \/ req[1].pc = "idle" /\ \E i \in QueryInputs : Start(1, i)
  \/ LaunchDone(1)
  \/ LaunchFail(1)
  \/ NewPageDone(1)
  \/ OpenPage(1)
  \/ BindForm(1)
  \/ ExportClick(1)
  \/ DownloadLands(1)
  \/ ScanDir(1)
  \/ ReadFile(1)
  \/ Unlink(1)
  \/ Capture(1)
  \/ PageClose(1)
  \/ Crash(1)
  \/ Sigint
  \/ SigintExit

SpecQuery == Init /\ [][NextQuery]_vars


----------------------------------------------------------------------------
(* Properties *)

HasEvent(r, op) == \E i \in 1..Len(req[r].log) : req[r].log[i][1] = op

CountEvents(r, op) == Cardinality({i \in 1..Len(req[r].log) : req[r].log[i][1] = op})

\* page.close threw for request r: it was called on a page already gone.
CloseThrew(r) == pages[r].closeCalled /\ pages[r].state = "gone"

\* The request reached generateQRCode with an options object lacking data.
DataMissingRequest(r) ==
  /\ req[r].pc # "idle"
  /\ req[r].input.hasBody
  /\ Falsy(HandlerOptions(req[r].input).data)

\* C1: a generateQRCode call whose options have a missing or empty data fails
\* with 'Data to encode is required' before any browser interaction: it made
\* no getBrowser, launch or newPage call and opened no page, whatever else the
\* options hold and whether or not a session exists; every launch ever started
\* belongs to a request that logged it.
C1_DataRequiredBeforeBrowser ==
  /\ \A r \in Requests :
       DataMissingRequest(r) =>
         /\ req[r].pc = "done"
         /\ req[r].thrown = ErrDataRequired
         /\ resp[r].error = ErrDataRequired
         /\ req[r].log = <<>>
         /\ req[r].browserInstance = 0
         /\ pages[r] = NoPage
  /\ launches.started = Cardinality({r \in Requests : HasEvent(r, "launch")})

\* C1 witness: a request with an empty data was rejected while a session was
\* already cached and live.
C1_Witness ==
  \E r \in Requests :
    /\ DataMissingRequest(r)
    /\ req[r].input.f.data = ""
    /\ resp[r].status = 500
    /\ browser # 0
    /\ sessions[browser] = "live"

\* C2 (as claimed): while no launch has failed, puppeteer.launch is started at
\* most once, and all requests receive the same browser handle.
C2_SingleSession ==
  /\ launches.failed = 0 => launches.started <= 1
  /\ \A r, q \in Requests :
       (req[r].browserInstance # 0 /\ req[q].browserInstance # 0)
         => req[r].browserInstance = req[q].browserInstance

\* C3: every request that obtained a page and has settled had page.close
\* called on that page, and the page is no longer open, whether the try block
\* returned or threw; so once all requests are done no page is open.
C3_PageClosedOnEveryExit ==
  \A r \in Requests :
    (req[r].pc = "done" /\ pages[r].state # "none") =>
      /\ pages[r].closeCalled
      /\ pages[r].state # "open"
      /\ CountEvents(r, "close") = 1

\* C3 witness: all requests are done, one threw inside the try block after
\* its page was opened and one returned bytes, and both pages are closed.
C3_Witness ==
  /\ \A r \in Requests : req[r].pc = "done" /\ pages[r].state = "closed"
  /\ \E r \in Requests : req[r].thrown \in {ErrNavigation, ErrSelector, ErrNoFile, ErrNoElement}
  /\ \E r \in Requests : resp[r].status = 200

\* The step in which the launch of request r fails.
LaunchFailStep(r) == req[r].pc = "launching" /\ req'[r].pc = "done"

\* C4 (as claimed): when a launch fails the error goes to the request that
\* called getBrowser, that request made one launch only, and the cached handle
\* is null afterwards (so that the next getBrowser call launches).
C4_LaunchFailureLeavesNull ==
  [][\A r \in Requests :
       LaunchFailStep(r) =>
         /\ resp'[r] = Failure(ErrLaunch)
         /\ CountEvents(r, "launch") = 1
         /\ browser' = 0]_vars

\* The step in which request r calls getBrowser.
GetBrowserStep(r) ==
  /\ req[r].pc = "idle"
  /\ req'[r].pc \in {"launching", "newPage"}

\* C5 (as claimed): once a session is launched, getBrowser returns that handle
\* without launching while the session is live, and launches a new session
\* when the cached session is no longer live.
C5_LiveHandleOrLaunch ==
  [][\A r \in Requests :
       (GetBrowserStep(r) /\ browser # 0) =>
         IF sessions[browser] = "live"
         THEN req'[r].browserInstance = browser /\ launches' = launches
         ELSE req'[r].pc = "launching"]_vars


\* generateQRCode rejected for request r: the try block or an earlier step
\* threw, or page.close threw in the finally block.
Rejected(r) == req[r].pc = "done" /\ (req[r].thrown # NoError \/ CloseThrew(r))

\* C6: every failed /generate request (validation, launch, newPage,
\* navigation or readiness timeout, missing artifact, file read or delete,
\* page.close) is answered with status 500 and the JSON body {error: <the
\* error's message>} and no image bytes; a request is answered exactly when it
\* is done; and the process leaves the running state only on a termination
\* signal, never through a failed request.
C6_FailuresAnswered500 ==
  /\ \A r \in Requests :
       Rejected(r) =>
         resp[r] = [status |-> 500, ctype |-> "application/json", disp |-> UNDEF,
                    body |-> NoBytes,
                    error |-> IF CloseThrew(r) THEN ErrProtocol ELSE req[r].thrown]
  /\ \A r \in Requests : (req[r].pc = "done") <=> (resp[r].status # 0)
  /\ proc.signals = 0 => proc.state = "running"

\* C6 witness: a request failed inside the pipeline and was answered 500, the
\* process kept running, and the request answered after it got its image.
C6_Witness ==
  /\ Len(answered) = 2
  /\ Rejected(answered[1])
  /\ req[answered[1]].thrown \in {ErrNavigation, ErrSelector, ErrNoFile, ErrReadFile,
                                  ErrNoElement, ErrNoSvg, ErrLaunch}
  /\ resp[answered[1]].status = 500
  /\ resp[answered[2]].status = 200
  /\ proc.state = "running"

\* C7 (as claimed): a POST /generate whose parsed body is empty or absent is
\* answered 500 with exactly {error: "Data to encode is required"}, with no
\* browser interaction.
C7_EmptyBodyDataRequired ==
  \A r \in Requests :
    (/\ req[r].pc = "done"
     /\ req[r].input.method = "POST"
     /\ (~req[r].input.hasBody \/ req[r].input.f = NoFields))
    => /\ resp[r] = Failure(ErrDataRequired)
       /\ req[r].log = <<>>
       /\ pages[r] = NoPage

\* The Form Binder's part of the log of request r: what follows the
\* readiness wait, up to and including the settle pause.
BinderEvents(r) ==
  LET lg == req[r].log
      from == CHOOSE i \in 1..Len(lg) : lg[i][1] = "waitForSelector"
      to == CHOOSE i \in 1..Len(lg) : lg[i][1] = "pause" /\ lg[i][2] \in {"500", "1000"}
  IN SubSeq(lg, from + 1, to)

\* The Form Binder ran to its end for request r.
BinderDone(r) ==
  \E i \in 1..Len(req[r].log) :
    req[r].log[i][1] = "pause" /\ req[r].log[i][2] \in {"500", "1000"}

\* The enum fields whose value is outside the set the deployed build recognizes.
Unrecognized(r) == {fd \in EnumFields : Opts(r)[fd] \notin Recognized(impl, fd)}

Clicked(r, fd) ==
  \E i \in 1..Len(req[r].log) : req[r].log[i][1] = "click" /\ req[r].log[i][2] = fd

\* C8: an enum value outside its field's recognized set raises no error and
\* causes no click for that field; the binder still applies every other field
\* (data, colors, sizes, each recognized enum value) and ends with its settle
\* pause, so extraction follows; the calls made are exactly those made for the
\* same request with that field left empty.
C8_UnknownEnumIgnored ==
  \A r \in Requests :
    (req[r].pc \notin {"idle", "launching", "newPage", "open", "bind"}
     /\ HasEvent(r, "waitForSelector") /\ req[r].thrown \notin {ErrSelector, ErrProtocol})
    => /\ BinderDone(r)
       /\ \A fd \in EnumFields :
            IF fd \in Unrecognized(r)
            THEN /\ ~Clicked(r, fd)
                 /\ \E k \in 0..MaxAccordions :
                      BinderEvents(r) = FormEvents(impl, [Opts(r) EXCEPT ![fd] = ""], k)
            ELSE Clicked(r, fd)
       /\ \E i \in 1..Len(req[r].log) : req[r].log[i][3] = req[r].input.f.data
       /\ \E i \in 1..Len(req[r].log) :
            req[r].log[i][1] \in {"setInput", "typeInput"} /\ req[r].log[i][3] = "300"

\* C8 witness: a request with an unknown dot type and a recognized corner dot
\* type was bound without the one click and with the other, and got its image.
C8_Witness ==
  \E r \in Requests :
    /\ req[r].input.f.dotsType = "hexagon"
    /\ req[r].input.f.cornersDotType = "dot"
    /\ req[r].input.f.errorCorrectionLevel = "Z"
    /\ ~Clicked(r, "dotsType")
    /\ ~Clicked(r, "errorCorrectionLevel")
    /\ Clicked(r, "cornersDotType")
    /\ resp[r].status = 200

\* The MIME type that names a kind of bytes.
MimeOfKind(kind) ==
  CASE kind = "svg" -> "image/svg+xml"
    [] kind = "png" -> "image/png"
    [] kind = "jpeg" -> "image/jpeg"
    [] OTHER -> "none"

\* C9 (as claimed): every successful /generate response, whatever the format
\* field was, carries one of the three image content types, and the one that
\* names the bytes returned.
C9_ContentTypeMatchesBytes ==
  \A r \in Requests :
    resp[r].status = 200 =>
      /\ resp[r].ctype \in {"image/svg+xml", "image/png", "image/jpeg"}
      /\ resp[r].ctype = MimeOfKind(resp[r].body.kind)

\* C10 (as claimed): in the download-and-read build, once a request is done
\* the download directory holds no file its export click produced.
C10_NoArtifactOutlivesRequest ==
  impl = "download" =>
    \A r \in Requests : req[r].pc = "done" => \A f \in dir : f.owner # r


\* C11: every request that got a browser handle calls newPage exactly once
\* and holds at most one page; under every interleaving each page is driven
\* (viewport, navigation, form mutations, clicks, capture, close) only by the
\* request that opened it, and a request's page calls all reach its own page.
C11_OwnPageOnly ==
  /\ \A p \in Requests : pages[p].drivenBy \subseteq {p}
  /\ \A r \in Requests :
       /\ CountEvents(r, "newPage") = (IF req[r].browserInstance # 0 THEN 1 ELSE 0)
       /\ pages[r].state # "none" => HasEvent(r, "newPage")
       /\ HasEvent(r, "setViewport") => pages[r].drivenBy = {r}

\* C11 witness: two requests are past form binding at the same time, each on
\* the page it opened.
C11_Witness ==
  /\ req[1].pc = "extract" /\ req[2].pc = "extract"
  /\ pages[1].state = "open" /\ pages[2].state = "open"
  /\ pages[1].drivenBy = {1} /\ pages[2].drivenBy = {2}


\* The number of browser.close() calls the shutdown handler made on session s.
ShutdownCloses(s) == Cardinality({i \in 1..Len(proc.closing) : proc.closing[i] = s})

\* C12: on the termination signal the handler closes the cached session and
\* then exits: when a handle is cached at exit, a close the handler called has
\* completed before process.exit, and the handler calls close at most once
\* per session.
C12_ShutdownClosesOnceThenExits ==
  /\ proc.state = "exited" /\ browser # 0 =>
       \E i \in 1..Len(proc.closing) : sessions[proc.closing[i]] # "live"
  /\ \A s \in 1..Len(sessions) : ShutdownCloses(s) <= 1


\* C13: in the build of server.js every value the README lists for
\* cornersSquareType and for cornersDotType is in the set the Form Binder
\* recognizes for that field, and a bound request that supplied such a value
\* has a click on that field's control.
C13_ReadmeValuesClicked ==
  impl = "download" =>
    \A r \in Requests :
      BinderDone(r) =>
        /\ Opts(r).cornersSquareType \in README_CORNER_SQUARE_TYPES
             => /\ Opts(r).cornersSquareType \in Recognized(impl, "cornersSquareType")
                /\ Clicked(r, "cornersSquareType")
        /\ Opts(r).cornersDotType \in README_CORNER_DOT_TYPES
             => /\ Opts(r).cornersDotType \in Recognized(impl, "cornersDotType")
                /\ Clicked(r, "cornersDotType")


\* A log event that changes a form field or clicks one of its controls.
Mutation(e) == e[1] \in {"setInput", "setColor", "typeInput", "click"}

\* Every expanding click in the event sequence ev is directly followed by its
\* 200 ms pause.
ExpandsSettle(ev) ==
  \A i \in 1..Len(ev) :
    ev[i][1] = "expand" => i < Len(ev) /\ ev[i + 1] = <<"pause", "200", "">>

\* C14 (as claimed): in the label-addressed build every click that expands a
\* closed panel happens before the first mutation of any form field, the data
\* field included, and each expanding click is followed by its settle pause.
C14_ExpandBeforeAnyField ==
  \A r \in Requests :
    impl = "capture" /\ BinderDone(r) =>
      LET ev == BinderEvents(r)
      IN /\ ExpandsSettle(ev)
         /\ \A i, j \in 1..Len(ev) :
              ev[i][1] = "expand" /\ Mutation(ev[j]) => i < j

\* C14 (amended): in the label-addressed build the data field is typed first;
\* every click that expands a closed panel happens after that and before the
\* first mutation of any other field, and each expanding click is followed by
\* its settle pause before the next click.
C14_ExpandBeforeOptionFields ==
  \A r \in Requests :
    impl = "capture" /\ BinderDone(r) =>
      LET ev == BinderEvents(r)
      IN /\ ev[1] = <<"typeInput", "input.text-input", Opts(r).data>>
         /\ ExpandsSettle(ev)
         /\ \A i, j \in 1..Len(ev) :
              ev[i][1] = "expand" /\ Mutation(ev[j]) /\ j > 1 => i < j

\* C14 witness: a bound request of the label-addressed build found two closed
\* panels and expanded both.
C14_Witness ==
  /\ impl = "capture" /\ BinderDone(1)
  /\ Cardinality({i \in 1..Len(req[1].log) : req[1].log[i][1] = "expand"}) = 2
  /\ Clicked(1, "dotsType")


\* The pipeline step a logged call belongs to: 1 navigation, 2 readiness
\* wait, 3 form binding, 4 settle delay, 5 extraction, 6 page close; 0 for
\* the calls ahead of the pipeline (getBrowser, launch, newPage, setViewport).
Phase(e) ==
  CASE e[1] = "goto" -> 1
    [] e[1] = "waitForSelector" -> 2
    [] Mutation(e) \/ e[1] = "expand" \/ (e[1] = "pause" /\ e[2] = "200") -> 3
    [] e[1] = "pause" /\ e[2] \in {"500", "1000"} -> 4
    [] e[1] \in {"setDownloadBehavior", "clickExport", "readdir", "readFile",
                 "unlink", "query", "serialize", "screenshot"} -> 5
    [] e[1] = "close" -> 6
    [] OTHER -> 0

\* Request r has logged a call of step ph.
HasPhase(r, ph) == \E i \in 1..Len(req[r].log) : Phase(req[r].log[i]) = ph

\* C15: within one request the steps occur in a fixed order: navigation, then
\* the readiness wait, then (the marker being there) the field mutations and
\* enum clicks, then the settle delay, then extraction, then the page close;
\* no step is reached without the ones before it, and a response with bytes is
\* sent only after the page was closed.
C15_PipelineOrder ==
  \A r \in Requests :
    LET lg == req[r].log IN
    /\ \A i \in 1..(Len(lg) - 1) : Phase(lg[i]) <= Phase(lg[i + 1])
    /\ CountEvents(r, "goto") <= 1 /\ CountEvents(r, "waitForSelector") <= 1
    /\ CountEvents(r, "close") <= 1
    /\ Cardinality({i \in 1..Len(lg) : lg[i][1] = "pause" /\ lg[i][2] # "200"}) <= 1
    /\ HasEvent(r, "waitForSelector") => HasEvent(r, "goto")
    /\ HasPhase(r, 3) =>
         /\ HasEvent(r, "waitForSelector")
         /\ req[r].thrown \notin {ErrNavigation, ErrSelector}
    /\ BinderDone(r) => HasPhase(r, 3)
    /\ HasPhase(r, 5) => BinderDone(r)
    /\ HasEvent(r, "close") => HasEvent(r, "newPage")
    /\ resp[r].status = 200 =>
         /\ HasPhase(r, 5) /\ HasEvent(r, "close")
         /\ pages[r].state = "closed"

\* C15 witness: a request went through every step, with an enum click ahead of
\* the settle delay, and got its bytes after its page was closed.
C15_Witness ==
  /\ impl = "download"
  /\ resp[1].status = 200 /\ pages[1].state = "closed"
  /\ Clicked(1, "dotsType") /\ Clicked(1, "errorCorrectionLevel")
  /\ HasEvent(1, "unlink")


\* The export button (suffix of its id) and the file extension of each format.
ExportOf ==
  [png  |-> [button |-> "png", ext |-> "png"],
   jpeg |-> [button |-> "jpg", ext |-> "jpg"],
   svg  |-> [button |-> "svg", ext |-> "svg"]]

\* C16: in the download-and-read build, for each format of png, jpeg and svg
\* the export button clicked and the extension searched are those of the
\* format (png/png, jpg/jpg, svg/svg), the extension the click's download
\* carries included; and when the directory scan finds no file with that
\* extension the try block throws 'Download failed - no file found' with no
\* file chosen, read or deleted.
C16_ExportAndSearchAgree ==
  \A r \in Requests :
    impl = "download" =>
      LET lg == req[r].log
          f == Opts(r).format
      IN /\ \A i \in 1..Len(lg) :
              /\ (lg[i][1] = "clickExport" /\ f \in DOMAIN ExportOf) =>
                    /\ lg[i][2] = ExportOf[f].button
                    /\ dl[r].ext = ExportOf[f].ext
              /\ (lg[i][1] = "readdir" /\ f \in DOMAIN ExportOf) =>
                    /\ lg[i][2] = ExportOf[f].ext
                    /\ lg[i][2] = dl[r].ext
                    /\ HasEvent(r, "clickExport")
              /\ (lg[i][1] = "readdir" /\ lg[i][3] = "none") =>
                    /\ req[r].thrown = ErrNoFile
                    /\ req[r].file = NoFile /\ req[r].result = NoBytes
                    /\ ~HasEvent(r, "readFile") /\ ~HasEvent(r, "unlink")
                    /\ resp[r].status \in {0, 500}
         /\ req[r].thrown = ErrNoFile =>
              \E i \in 1..Len(lg) : lg[i][1] = "readdir" /\ lg[i][3] = "none"

\* C16 witness: a jpeg request clicked the jpg button, found no .jpg file and
\* was answered with the missing-artifact error.
C16_Witness ==
  /\ impl = "download" /\ Opts(1).format = "jpeg"
  /\ HasEvent(1, "clickExport") /\ HasEvent(1, "readdir")
  /\ req[1].thrown = ErrNoFile
  /\ resp[1] = Failure(ErrNoFile)


\* Request r logged the call op with outcome out.
HasOutcome(r, op, out) ==
  \E i \in 1..Len(req[r].log) : req[r].log[i][1] = op /\ req[r].log[i][3] = out

\* C17: in the direct-capture build, with the export container absent the try
\* block throws 'QR code element not found'; otherwise for format svg the
\* result is the serialized svg markup, or 'SVG element not found' is thrown
\* when the markup is absent, with no screenshot either way; otherwise the
\* result is a screenshot of the container, png for format png and jpeg for
\* format jpeg.
C17_CaptureByFormat ==
  \A r \in Requests :
    (impl = "capture" /\ HasEvent(r, "query")) =>
      LET f == Opts(r).format IN
      IF HasOutcome(r, "query", "null")
      THEN /\ req[r].thrown = ErrNoElement /\ req[r].result = NoBytes
           /\ ~HasEvent(r, "serialize") /\ ~HasEvent(r, "screenshot")
      ELSE IF f = "svg"
      THEN /\ ~HasEvent(r, "screenshot")
           /\ IF HasOutcome(r, "serialize", "null")
              THEN req[r].thrown = ErrNoSvg /\ req[r].result = NoBytes
              ELSE /\ HasOutcome(r, "serialize", "found")
                   /\ req[r].thrown = NoError
                   /\ req[r].result = [kind |-> "svg", owner |-> r]
      ELSE /\ ~HasEvent(r, "serialize")
           /\ req[r].thrown = NoError
           /\ f \in {"png", "jpeg"} =>
                /\ req[r].result = [kind |-> f, owner |-> r]
                /\ \E i \in 1..Len(req[r].log) :
                     req[r].log[i][1] = "screenshot" /\ req[r].log[i][2] = f

\* C17 witness: a jpeg request of the direct-capture build got a jpeg
\* screenshot of the container.
C17_Witness ==
  /\ impl = "capture" /\ Opts(1).format = "jpeg"
  /\ HasOutcome(1, "query", "found") /\ HasEvent(1, "screenshot")
  /\ req[1].result = [kind |-> "jpeg", owner |-> 1]
  /\ resp[1].status = 200


\* C18: a navigation timeout or a readiness timeout is fatal and not retried:
\* goto and the readiness wait are each called at most once per request;
\* after either fails no field is mutated, no control is clicked and nothing
\* is extracted; the page is closed; and the caller is answered with that
\* error.
C18_TimeoutFatalAndSurfaced ==
  \A r \in Requests :
    /\ CountEvents(r, "goto") <= 1 /\ CountEvents(r, "waitForSelector") <= 1
    /\ req[r].thrown \in {ErrNavigation, ErrSelector} =>
         /\ ~HasPhase(r, 3) /\ ~BinderDone(r) /\ ~HasPhase(r, 5)
         /\ req[r].result = NoBytes
         /\ resp[r] # NoResponse =>
              /\ pages[r].closeCalled
              /\ resp[r] = Failure(req[r].thrown)


\* The numeric fields and the default of each.
NumericDefault ==
  [width |-> "300", height |-> "300", borderRadius |-> "0",
   margin |-> "10", imageMargin |-> "0"]

\* C19: for GET /generate every numeric field absent from the query reaches
\* the Form Binder as its default, every numeric field given as a decimal
\* number reaches it as that number, and no value that is not an integer
\* (NaN) is written into a form field.
C19_QueryNumbersAreIntegers ==
  \A r \in Requests :
    (req[r].input.method = "GET" /\ BinderDone(r)) =>
      /\ \A nf \in DOMAIN NumericDefault :
           LET t == req[r].input.f[nf] IN
           /\ t = UNDEF => Opts(r)[nf] = NumericDefault[nf]
           /\ t = "400" => Opts(r)[nf] = "400"
           /\ Opts(r)[nf] # "NaN"
      /\ \A i \in 1..Len(req[r].log) :
           Mutation(req[r].log[i]) => req[r].log[i][3] # "NaN"


\* C20: in the download-and-read build the file a request selects in the
\* shared download directory, and the bytes it returns, come from its own
\* export click, and no request fails because the file it selected was
\* deleted by another request.
C20_OwnArtifactOnly ==
  \A r \in Requests :
    impl = "download" =>
      /\ req[r].file # NoFile => req[r].file.owner = r
      /\ req[r].result # NoBytes => req[r].result.owner = r
      /\ resp[r].status = 200 => resp[r].body.owner = r
      /\ req[r].thrown # ErrUnlink


\* C21: every browser session that was launched is closed by the
\* termination-signal handler before the process exits: once the process has
\* exited no launched session is still live, whether its handle was
\* overwritten by a second launch or its launch completed after the signal.
C21_NoSessionOutlivesExit ==
  proc.state = "exited" =>
    \A s \in 1..Len(sessions) : sessions[s] # "live"


\* C22: a failure of page.close in the finally block neither replaces a
\* successful outcome nor hides the original error: once the finally block has
\* run and the caller is answered, the answer carries the bytes the try block
\* produced, or the message of the error the try block threw, whether
\* page.close succeeded or threw.
C22_CloseFailureMasksNothing ==
  \A r \in Requests :
    (pages[r].closeCalled /\ resp[r] # NoResponse) =>
      IF req[r].thrown # NoError
      THEN resp[r] = Failure(req[r].thrown)
      ELSE resp[r] = Success(req[r].input, req[r].result)

====
